---- MODULE Spec2Model ----
(***************************************************************************)
(* Model of src/etl.py: the title cleaning helpers, the candidate          *)
(* generator, the OMDb resolver fetch_omdb_data, the per-entry loop of     *)
(* extract_movies and the movies upsert of load_data.                      *)
(*                                                                         *)
(* A Python str is a sequence of one-character strings.  The characters    *)
(* that are not ASCII are named: "e_acute" is U+00E9 (e with acute),       *)
(* "acute" is U+00B4 (the spacing acute accent).                           *)
(***************************************************************************)
EXTENDS Integers, Sequences, FiniteSets, TLC

VARIABLES
    title,        \* SpecTitle: the raw title under test
    tpc,          \* SpecTitle: position in the sequence of helper calls
    release_year, \* SpecTitle: value of the release_year lambda for title
    candidates,   \* SpecTitle: result of generate_title_candidates(title)
    cleaned,      \* SpecTitle: base_clean applied cleanCount times to title
    cleanCount,   \* SpecTitle: number of base_clean applications so far
    df,           \* extract_movies: the frame, one row (column -> value) per entry
    idx,          \* extract_movies: index of the row the loop is at
    pc,           \* main: "loop", "lookup", "extracted" or "failed"
    fetch,        \* fetch_omdb_data: its arguments and loop position
    obs,          \* what the current call of fetch_omdb_data has done so far
    table,        \* load_data: the movies table, movie_id -> row
    loads         \* load_data: outcome and table after each call

tvars == <<title, tpc, release_year, candidates, cleaned, cleanCount>>

pvars == <<df, idx, pc, fetch, obs, table, loads>>

vars == <<tvars, pvars>>

\* ------------------------------------------------------------------ bounds

\* Longest raw title, counted in tokens of TitleTokens.
MaxTokens == 3

\* How often base_clean is reapplied to its own result.
MaxCleans == 2

\* Most rows of movies.csv.
MaxEntries == 2

\* Most calls of load_data on the extracted frame.
MaxLoads == 2

\* ---------------------------------------------------------- configuration

API_RETRIES == 2

\* ------------------------------------------------------- characters, tokens

\* Python values whose types mix in one place are tagged with their type.
\* A float holds its value in tenths (1995.0 is 19950, 7.8 is 78); NaN is apart.
PyNone == [type |-> "NoneType"]

PyInt(n) == [type |-> "int", val |-> n]

PyFloat(tenths) == [type |-> "float", val |-> tenths]

PyNaN == [type |-> "float", nan |-> TRUE]

PyStr(s) == [type |-> "str", val |-> s]

IsNaN(v) == v = PyNaN

\* bool(v): the truth value Python gives v.
Truthy(v) ==
    CASE v = PyNone        -> FALSE
      [] v = PyNaN         -> TRUE
      [] v.type = "str"    -> v.val # <<>>
      [] OTHER             -> v.val # 0

Min(S) == CHOOSE x \in S : \A y \in S : x <= y

\* Characters matched by \s in a Python str pattern, and removed by str.strip().
IsSpace(c) == c \in {" ", "\t"}

\* Characters matched by \d.
Digits == <<"0", "1", "2", "3", "4", "5", "6", "7", "8", "9">>

IsDigit(c) == \E k \in 1..10 : Digits[k] = c

DigitVal(c) == (CHOOSE k \in 1..10 : Digits[k] = c) - 1

UpperCase == <<"A", "B", "C", "D", "E", "F", "G", "H", "I", "J", "K", "L", "M",
               "N", "O", "P", "Q", "R", "S", "T", "U", "V", "W", "X", "Y", "Z",
               "E_acute", "O_acute">>

LowerCase == <<"a", "b", "c", "d", "e", "f", "g", "h", "i", "j", "k", "l", "m",
               "n", "o", "p", "q", "r", "s", "t", "u", "v", "w", "x", "y", "z",
               "e_acute", "o_acute">>

\* Case folding of re.IGNORECASE.
Lower(c) ==
    IF \E k \in 1..Len(UpperCase) : UpperCase[k] = c
    THEN LowerCase[CHOOSE k \in 1..Len(UpperCase) : UpperCase[k] = c]
    ELSE c

\* The pieces raw titles are built from.
TitleTokens ==
    { <<"a">>, <<"e_acute">>, <<"acute">>, <<" ">>, <<"\"">>, <<",">>,
      <<"(", "1", "9", "9", "5", ")">>,
      <<"(", "l", ")">>,
      <<"(", "l", "a", ")">>,
      <<",", " ", "A">>,
      <<"(">>, <<")">> }

RECURSIVE TitlesOf(_)
TitlesOf(n) ==
    IF n = 0 THEN { <<>> }
    ELSE LET shorter == TitlesOf(n - 1)
         IN  shorter \cup { t \o k : t \in shorter, k \in TitleTokens }

\* The titles column of movies.csv.
RawTitles == TitlesOf(MaxTokens)

\* --------------------------------------------------------- string helpers

\* First index >= i that does not hold whitespace (Len(s) + 1 if none).
WsRunEnd(s, i) ==
    Min({ j \in i..(Len(s) + 1) : j = Len(s) + 1 \/ ~IsSpace(s[j]) })

\* str.strip(chars) for a set of characters.
RECURSIVE LStrip(_, _)
LStrip(s, chars) ==
    IF s # <<>> /\ Head(s) \in chars THEN LStrip(Tail(s), chars) ELSE s

RECURSIVE RStrip(_, _)
RStrip(s, chars) ==
    IF s # <<>> /\ s[Len(s)] \in chars
    THEN RStrip(SubSeq(s, 1, Len(s) - 1), chars)
    ELSE s

StripChars(s, chars) == RStrip(LStrip(s, chars), chars)

\* str.strip() with no argument.
Strip(s) == StripChars(s, {" ", "\t"})

\* re.sub(r"\s+", " ", s)
RECURSIVE CollapseWs(_)
CollapseWs(s) ==
    IF s = <<>> THEN <<>>
    ELSE IF IsSpace(Head(s))
         THEN <<" ">> \o CollapseWs(SubSeq(s, WsRunEnd(s, 1), Len(s)))
         ELSE <<Head(s)>> \o CollapseWs(Tail(s))

tidy_whitespace(s) == Strip(CollapseWs(s))

\* unicodedata.normalize("NFKD", c) with the combining marks dropped.
Decompose(c) ==
    CASE c = "e_acute" -> <<"e">>
      [] c = "E_acute" -> <<"E">>
      [] c = "o_acute" -> <<"o">>
      [] c = "O_acute" -> <<"O">>
      [] c = "acute"   -> <<" ">>
      [] OTHER         -> <<c>>

RECURSIVE remove_diacritics(_)
remove_diacritics(text) ==
    IF text = <<>> THEN <<>>
    ELSE Decompose(Head(text)) \o remove_diacritics(Tail(text))

\* ---------------------------------------------------------------- base_clean

\* s[q .. q+5] is "(dddd)".
YearBlockAt(s, q) ==
    /\ q >= 1
    /\ q + 5 <= Len(s)
    /\ s[q] = "("
    /\ \A k \in 1..4 : IsDigit(s[q + k])
    /\ s[q + 5] = ")"

\* Start positions of a match of \s*\(\d{4}\)\s*$ in s.
TrailingYearStarts(s) ==
    { p \in 1..Len(s) :
        LET q == WsRunEnd(s, p)
        IN  YearBlockAt(s, q) /\ WsRunEnd(s, q + 6) = Len(s) + 1 }

\* re.sub(r"\s*\(\d{4}\)\s*$", "", title)
StripTrailingYear(s) ==
    IF TrailingYearStarts(s) = {} THEN s
    ELSE SubSeq(s, 1, Min(TrailingYearStarts(s)) - 1)

base_clean(t) ==
    tidy_whitespace(StripChars(Strip(StripTrailingYear(t)), {" ", "\"", "'"}))

\* ------------------------------------------------------ move_trailing_article

Articles == << <<"t", "h", "e">>, <<"a">>, <<"a", "n">> >>

\* s[i ..] is exactly word, ignoring case.
IsWordToEnd(s, i, word) ==
    /\ Len(s) - i + 1 = Len(word)
    /\ \A k \in 1..Len(word) : Lower(s[i + k - 1]) = word[k]

\* Positions c of a comma with ,\s*(The|A|An)$ matching from c.
ArticleCommas(s) ==
    { c \in 1..Len(s) :
        /\ s[c] = ","
        /\ \E a \in 1..Len(Articles) :
              IsWordToEnd(s, WsRunEnd(s, c + 1), Articles[a]) }

move_trailing_article(t) ==
    IF ArticleCommas(t) = {} THEN t
    ELSE LET c == CHOOSE x \in ArticleCommas(t) :
                      \A y \in ArticleCommas(t) : y <= x
             g1 == SubSeq(t, 1, c - 1)
             g2 == SubSeq(t, WsRunEnd(t, c + 1), Len(t))
         IN  Strip(g2 \o <<" ">> \o g1)

\* ------------------------------------------ remove_parenthetical_alternates

\* The alternatives of the marker group, in the order of the pattern.
Markers ==
    << <<"a", ".", "k", ".", "a", ".">>,
       <<"a", "k", "a">>,
       <<"o", "r", "i", "g", "i", "n", "a", "l">>,
       <<"o", "r", "i", "g", "i", "n", "a", "l", " ", "t", "i", "t", "l", "e">>,
       <<"l", "a">>,
       <<"l", "e">>,
       <<"d", "e", "r">>,
       <<"e", "l">>,
       <<"c", "i", "t", "e">>,
       <<"c", "i", "t", "e_acute">>,
       <<"v", "e", "r", "s", "i", "o_acute", "n">>,
       <<"v", "e", "r", "s", "i", "o", "n">> >>

\* word matches s at index i, ignoring case.
WordAt(s, i, word) ==
    /\ i + Len(word) - 1 <= Len(s)
    /\ \A k \in 1..Len(word) : Lower(s[i + k - 1]) = word[k]

\* Length of the first alternative of Markers that matches s at i (0 if none).
MarkerLenAt(s, i) ==
    LET hits == { a \in 1..Len(Markers) : WordAt(s, i, Markers[a]) }
    IN  IF hits = {} THEN 0 ELSE Len(Markers[Min(hits)])

\* Index of the first ")" at or after i (0 if none).
FirstClose(s, i) ==
    LET closes == { j \in i..Len(s) : s[j] = ")" }
    IN  IF closes = {} THEN 0 ELSE Min(closes)

\* End (exclusive) of the match of \s*\(.*?(marker).*?\)\s* that starts at p,
\* 0 if the pattern does not match at p.  The lazy .*? stops at the first
\* marker after the "(", and the second at the first ")" after that marker.
MarkedMatchEnd(s, p) ==
    LET q == WsRunEnd(s, p)
    IN  IF q > Len(s) \/ s[q] # "(" THEN 0
        ELSE LET ms == { m \in (q + 1)..Len(s) : MarkerLenAt(s, m) > 0 }
             IN  IF ms = {} THEN 0
                 ELSE LET m == Min(ms)
                          j == FirstClose(s, m + MarkerLenAt(s, m))
                      IN  IF j = 0 THEN 0 ELSE WsRunEnd(s, j + 1)

\* End (exclusive) of the match of \s*\([^)]*\)\s* that starts at p, 0 if none.
ParenMatchEnd(s, p) ==
    LET q == WsRunEnd(s, p)
    IN  IF q > Len(s) \/ s[q] # "(" THEN 0
        ELSE LET j == FirstClose(s, q + 1)
             IN  IF j = 0 THEN 0 ELSE WsRunEnd(s, j + 1)

\* re.sub(marker pattern, ' ', s) from position pos on.
RECURSIVE SubMarked(_, _)
SubMarked(s, pos) ==
    LET starts == { p \in pos..Len(s) : MarkedMatchEnd(s, p) > 0 }
    IN  IF starts = {} THEN SubSeq(s, pos, Len(s))
        ELSE LET p == Min(starts)
             IN  SubSeq(s, pos, p - 1) \o <<" ">>
                     \o SubMarked(s, MarkedMatchEnd(s, p))

\* re.sub(r'\s*\([^)]*\)\s*', ' ', s) from position pos on.
RECURSIVE SubParen(_, _)
SubParen(s, pos) ==
    LET starts == { p \in pos..Len(s) : ParenMatchEnd(s, p) > 0 }
    IN  IF starts = {} THEN SubSeq(s, pos, Len(s))
        ELSE LET p == Min(starts)
             IN  SubSeq(s, pos, p - 1) \o <<" ">>
                     \o SubParen(s, ParenMatchEnd(s, p))

remove_parenthetical_alternates(t) ==
    tidy_whitespace(SubParen(SubMarked(t, 1), 1))

\* ------------------------------------------ extract_parenthetical_alternate

\* Positions of a "(" where \(([^)]+)\) matches.
AlternateStarts(s) ==
    { p \in 1..Len(s) :
        /\ s[p] = "("
        /\ p + 1 <= Len(s)
        /\ s[p + 1] # ")"
        /\ FirstClose(s, p + 1) > 0 }

\* The result as a list: <<>> for None, <<inside>> otherwise.
extract_parenthetical_alternate(t) ==
    IF AlternateStarts(t) = {} THEN <<>>
    ELSE LET p == Min(AlternateStarts(t))
             inside == Strip(SubSeq(t, p + 1, FirstClose(t, p + 1) - 1))
         IN  IF Len(inside) <= 30 /\ \A k \in 1..Len(inside) : inside[k] # ","
             THEN <<inside>>
             ELSE <<>>

\* ------------------------------------------------- generate_title_candidates

InList(x, list) == \E k \in 1..Len(list) : list[k] = x

\* for t in ts: if t and t not in acc: acc.append(t)
RECURSIVE AppendNew(_, _)
AppendNew(acc, ts) ==
    IF ts = <<>> THEN acc
    ELSE AppendNew(IF Head(ts) # <<>> /\ ~InList(Head(ts), acc)
                   THEN Append(acc, Head(ts))
                   ELSE acc,
                   Tail(ts))

\* for c in list(candidates): the loop runs over the snapshot cs, and
\* appends to acc.
RECURSIVE AppendTranslits(_, _)
AppendTranslits(acc, cs) ==
    IF cs = <<>> THEN acc
    ELSE LET translit == remove_diacritics(Head(cs))
         IN  AppendTranslits(IF translit # Head(cs) /\ ~InList(translit, acc)
                             THEN Append(acc, translit)
                             ELSE acc,
                             Tail(cs))

\* The variant that tries the base title first.
CandidateVariations_BaseFirst(base) ==
    <<base, move_trailing_article(base), remove_parenthetical_alternates(base)>>
        \o extract_parenthetical_alternate(base)

\* [moved, removed_paren, alt, base] without a None alt (which "if t" skips).
CandidateVariations(base) ==
    <<move_trailing_article(base), remove_parenthetical_alternates(base)>>
        \o extract_parenthetical_alternate(base) \o <<base>>

\* [tidy_whitespace(c) for c in candidates if c]
RECURSIVE TidyAll(_)
TidyAll(cs) ==
    IF cs = <<>> THEN <<>>
    ELSE (IF Head(cs) # <<>> THEN <<tidy_whitespace(Head(cs))>> ELSE <<>>)
             \o TidyAll(Tail(cs))

generate_title_candidates(original_title) ==
    LET base == base_clean(original_title)
    IN  IF base = <<>> THEN <<>>
        ELSE LET first == AppendNew(<<>>, CandidateVariations(base))
             IN  TidyAll(AppendTranslits(first, first))

\* ------------------------------------------------- release_year (the lambda)

\* Positions where \((\d{4})\) matches.
YearStarts(s) == { q \in 1..Len(s) : YearBlockAt(s, q) }

\* int(group(1)) of a match at q.
YearAt(s, q) ==
    DigitVal(s[q + 1]) * 1000 + DigitVal(s[q + 2]) * 100
        + DigitVal(s[q + 3]) * 10 + DigitVal(s[q + 4])

\* lambda t: int(re.search(r'\((\d{4})\)', t).group(1)) if re.search(...) else None
ReleaseYearOf(t) ==
    IF YearStarts(t) = {} THEN PyNone ELSE PyInt(YearAt(t, Min(YearStarts(t))))

\* ------------------------------------------------------------ movies.csv

Year1995 == <<"(", "1", "9", "9", "5", ")">>

Year0000 == <<"(", "0", "0", "0", "0", ")">>

\* Titles of the catalogs the pipeline is run on: without a year (its
\* candidate list, of five, holds "a" twice), with a year, with nothing but a
\* year, with an alternate in parentheses, with year 0000.
CatalogTitles ==
    { <<"a", "acute", "(", "a", ")">>,
      <<"a">> \o Year1995,
      Year1995,
      <<"a", "(", "l", ")">> \o Year1995,
      <<"a">> \o Year0000 }

Catalogs == UNION { [1..n -> CatalogTitles] : n \in 1..MaxEntries }

\* Cells of the two columns a movies.csv may carry beyond movieId, title, genres.
CsvBoxOffice == PyStr(<<"$", "1", ",", "0", "0", "0">>)

CsvRuntime == PyStr(<<"9", "0", " ", "m", "i", "n">>)

\* df['title'].apply(lambda ...): pandas turns a result column that mixes int
\* and None into float64 with NaN for None; a column of None only stays
\* None, a column of int only stays int.
ReleaseYearColumn(titles) ==
    LET raw == [i \in 1..Len(titles) |-> ReleaseYearOf(titles[i])]
        someNone == \E i \in 1..Len(titles) : raw[i] = PyNone
        someInt == \E i \in 1..Len(titles) : raw[i] # PyNone
    IN  [i \in 1..Len(titles) |->
            IF someNone /\ someInt
            THEN (IF raw[i] = PyNone THEN PyNaN ELSE PyFloat(raw[i].val * 10))
            ELSE raw[i]]

\* pd.read_csv(CSV_MOVIES) followed by the release_year assignment.
ReadCatalog(titles, extra) ==
    [i \in 1..Len(titles) |->
        [c \in {"movieId", "title", "genres", "release_year"}
                \cup (IF extra THEN {"box_office_dollars", "runtime_mins"} ELSE {}) |->
            CASE c = "movieId"            -> PyInt(i)
              [] c = "title"              -> PyStr(titles[i])
              [] c = "genres"             -> PyStr(<<"g">>)
              [] c = "release_year"       -> ReleaseYearColumn(titles)[i]
              [] c = "box_office_dollars" -> CsvBoxOffice
              [] c = "runtime_mins"       -> CsvRuntime]]

\* ---------------------------------------------------------- fetch_omdb_data

NotAvailable == <<"N", "o", "t", " ", "A", "v", "a", "i", "l", "a", "b", "l", "e">>

Unknown == <<"U", "n", "k", "n", "o", "w", "n">>

NA == <<"N", "/", "A">>

default ==
    [imdb_id |-> PyNone, plot |-> PyStr(NotAvailable), director |-> PyStr(Unknown),
     box_office |-> PyNone, runtime |-> PyNone, imdb_rating |-> PyNone]

\* Bodies the service answers with when Response is 'True'.  A key the body
\* lacks reads as None (data.get).
Payloads ==
    { \* every field populated
      [imdbID |-> PyStr(<<"t", "t", "1">>), Plot |-> PyStr(<<"p">>),
       Director |-> PyStr(<<"d">>), BoxOffice |-> PyStr(<<"$", "5">>),
       Runtime |-> PyStr(<<"9", " ", "m", "i", "n">>),
       imdbRating |-> PyStr(<<"7", ".", "8">>)],
      \* nothing but Response
      [imdbID |-> PyNone, Plot |-> PyNone, Director |-> PyNone,
       BoxOffice |-> PyNone, Runtime |-> PyNone, imdbRating |-> PyNone],
      \* the service's 'N/A' placeholders, empty plot and director
      [imdbID |-> PyStr(<<"t", "t", "2">>), Plot |-> PyStr(<<>>),
       Director |-> PyStr(<<>>), BoxOffice |-> PyStr(NA),
       Runtime |-> PyStr(NA), imdbRating |-> PyStr(NA)],
      \* an empty rating
      [imdbID |-> PyStr(<<"t", "t", "3">>), Plot |-> PyStr(<<"p">>),
       Director |-> PyStr(<<"d">>), BoxOffice |-> PyNone,
       Runtime |-> PyNone, imdbRating |-> PyStr(<<>>)] }

\* a or b
Or(a, b) == IF Truthy(a) THEN a ELSE b

\* The str is digits, or digits "." digit: the decimal literals among the
\* payload values; float() raises ValueError for the others among them.
IsDecimal(s) ==
    \/ Len(s) >= 1 /\ \A k \in 1..Len(s) : IsDigit(s[k])
    \/ /\ Len(s) >= 3
       /\ s[Len(s) - 1] = "."
       /\ IsDigit(s[Len(s)])
       /\ \A k \in 1..(Len(s) - 2) : IsDigit(s[k])

RECURSIVE DigitsValue(_)
DigitsValue(s) ==
    IF s = <<>> THEN 0
    ELSE DigitsValue(SubSeq(s, 1, Len(s) - 1)) * 10 + DigitVal(s[Len(s)])

\* float(s) in tenths, for a decimal literal s.
FloatOf(s) ==
    IF \A k \in 1..Len(s) : IsDigit(s[k])
    THEN PyFloat(DigitsValue(s) * 10)
    ELSE PyFloat(DigitsValue(SubSeq(s, 1, Len(s) - 2)) * 10 + DigitVal(s[Len(s)]))

\* float(data.get('imdbRating')) is evaluated and raises ValueError.
RatingRaises(data) ==
    /\ data.imdbRating \notin {PyNone, PyStr(NA)}
    /\ ~IsDecimal(data.imdbRating.val)

\* The dict returned for a body with Response == 'True'.
MapResponse(data) ==
    [imdb_id |-> data.imdbID,
     plot |-> Or(data.Plot, PyStr(NotAvailable)),
     director |-> Or(data.Director, PyStr(Unknown)),
     box_office |-> data.BoxOffice,
     runtime |-> data.Runtime,
     imdb_rating |-> IF data.imdbRating \notin {PyNone, PyStr(NA)}
                     THEN FloatOf(data.imdbRating.val)
                     ELSE PyNone]

\* int(year) raises ValueError (year is NaN).
IntRaises(year) == IsNaN(year)

\* int(year) for an int or a float that is not NaN.
IntOf(year) == IF year.type = "int" THEN year.val ELSE year.val \div 10

\* params_list of one candidate.
ParamsList(candidate, year) ==
    (IF Truthy(year) THEN <<[t |-> candidate, y |-> IntOf(year)]>> ELSE <<>>)
        \o <<[t |-> candidate]>>

FetchIdle == [cands |-> <<>>, year |-> PyNone, ci |-> 0, vi |-> 0, attempt |-> 0]

\* status: "idle", "running", "returned" or "raised"; cands, year: the
\* arguments of the call; result: the dict returned; calls: requests sent;
\* pairCalls: requests sent in a row with the params of the last one; last:
\* the last request and its outcome; auth: the body with Response == 'True'.
ObsIdle ==
    [status |-> "idle", cands |-> <<>>, year |-> PyNone, result |-> PyNone,
     calls |-> 0, pairCalls |-> 0, last |-> <<>>, auth |-> <<>>]

OmdbKeys == {"imdb_id", "plot", "director", "box_office", "runtime", "imdb_rating"}

\* for key, value in omdb_info.items(): df.at[idx, key] = value
\* (a column that is new holds NaN in the other rows).
Merge(frame, i, rec) ==
    [r \in 1..Len(frame) |->
        [c \in DOMAIN frame[r] \cup OmdbKeys |->
            IF r = i /\ c \in OmdbKeys THEN rec[c]
            ELSE IF c \in DOMAIN frame[r] THEN frame[r][c]
            ELSE PyNaN]]

\* fetch_omdb_data returns rec: extract_movies merges it and goes on with
\* the next row.
Returned(rec, o) ==
    /\ df' = Merge(df, idx, rec)
    /\ idx' = idx + 1
    /\ pc' = IF idx + 1 > Len(df) THEN "extracted" ELSE "loop"
    /\ fetch' = FetchIdle
    /\ obs' = [o EXCEPT !.status = "returned", !.result = rec]

\* An exception leaves fetch_omdb_data, extract_movies and main.
Raised(o) ==
    /\ pc' = "failed"
    /\ fetch' = FetchIdle
    /\ obs' = [o EXCEPT !.status = "raised"]
    /\ UNCHANGED <<df, idx>>

\* The next requests.get is for params_list[vi] of candidate ci.
Pending(cands, year, ci, vi, attempt, o) ==
    /\ pc' = "lookup"
    /\ fetch' = [cands |-> cands, year |-> year, ci |-> ci, vi |-> vi,
                 attempt |-> attempt]
    /\ obs' = o
    /\ UNCHANGED <<df, idx>>

\* Top of "for candidate in title_candidates" at candidate ci.
EnterCandidate(cands, year, ci, o) ==
    IF ci > Len(cands) THEN Returned(default, o)
    ELSE IF Truthy(year) /\ IntRaises(year) THEN Raised(o)
    ELSE Pending(cands, year, ci, 1, 0, o)

\* The attempts loop of the current params is over (break, or range exhausted).
AdvancePair(o) ==
    IF fetch.vi < Len(ParamsList(fetch.cands[fetch.ci], fetch.year))
    THEN Pending(fetch.cands, fetch.year, fetch.ci, fetch.vi + 1, 0, o)
    ELSE EnterCandidate(fetch.cands, fetch.year, fetch.ci + 1, o)

\* params_extra of the request about to be sent.
CurrentParams == ParamsList(fetch.cands[fetch.ci], fetch.year)[fetch.vi]

\* requests.get is called once more, and ends with the given outcome.
Issued(outcome) ==
    [obs EXCEPT
        !.calls = obs.calls + 1,
        !.pairCalls =
            IF /\ obs.last # <<>>
               /\ obs.last[1].ci = fetch.ci
               /\ obs.last[1].params = CurrentParams
            THEN obs.pairCalls + 1
            ELSE 1,
        !.last = <<[ci |-> fetch.ci, params |-> CurrentParams,
                    outcome |-> outcome]>>]

\* extract_movies: the loop body for row idx, up to the first request.
BeginEntry ==
    /\ pc = "loop"
    /\ LET cands == generate_title_candidates(df[idx]["title"].val)
           year == df[idx]["release_year"]
       IN  EnterCandidate(cands, year, 1,
                          [ObsIdle EXCEPT !.status = "running",
                                          !.cands = cands, !.year = year])
    /\ UNCHANGED <<table, loads>>
    /\ UNCHANGED tvars

\* for attempt in range(API_RETRIES): another attempt follows this one.
\* The variant that allows one attempt more.
AttemptFollows_OneMore(attempt) == attempt + 1 <= API_RETRIES

AttemptFollows(attempt) == attempt + 1 < API_RETRIES

\* requests.get or raise_for_status raises a RequestException.
LookupTransientFailure ==
    /\ pc = "lookup"
    /\ IF AttemptFollows(fetch.attempt)
       THEN Pending(fetch.cands, fetch.year, fetch.ci, fetch.vi,
                    fetch.attempt + 1, Issued("transient"))
       ELSE AdvancePair(Issued("transient"))
    /\ UNCHANGED <<table, loads>>
    /\ UNCHANGED tvars

\* The variant without the break: a no-match answer is tried again like a
\* failed request.
LookupNoMatch_Retried ==
    /\ pc = "lookup"
    /\ IF AttemptFollows(fetch.attempt)
       THEN Pending(fetch.cands, fetch.year, fetch.ci, fetch.vi,
                    fetch.attempt + 1, Issued("no_match"))
       ELSE AdvancePair(Issued("no_match"))
    /\ UNCHANGED <<table, loads>>
    /\ UNCHANGED tvars

\* The body's Response is not 'True': break.
LookupNoMatch ==
    /\ pc = "lookup"
    /\ AdvancePair(Issued("no_match"))
    /\ UNCHANGED <<table, loads>>
    /\ UNCHANGED tvars

\* The body's Response is 'True': the dict is built and returned.
LookupAuthoritative ==
    /\ pc = "lookup"
    /\ \E data \in Payloads :
          LET o == [Issued("authoritative") EXCEPT !.auth = <<data>>]
          IN  IF RatingRaises(data) THEN Raised(o)
              ELSE Returned(MapResponse(data), o)
    /\ UNCHANGED <<table, loads>>
    /\ UNCHANGED tvars

\* ------------------------------------------------------------------ load_data

\* The columns load_data selects from movies_df.
LoadColumns ==
    {"movieId", "title", "release_year", "imdb_id", "plot", "director",
     "box_office_dollars", "runtime_mins", "imdb_rating"}

full_title_clean(t) ==
    tidy_whitespace(remove_diacritics(remove_parenthetical_alternates(
        move_trailing_article(base_clean(t)))))

\* str.replace(word, "")
RECURSIVE Remove(_, _)
Remove(s, word) ==
    IF s = <<>> THEN <<>>
    ELSE IF Len(word) <= Len(s) /\ SubSeq(s, 1, Len(word)) = word
         THEN Remove(SubSeq(s, Len(word) + 1, Len(s)), word)
         ELSE <<Head(s)>> \o Remove(Tail(s), word)

clean_box_office(value) ==
    LET v == IF value.type = "str"
             THEN PyStr(Strip(Remove(Remove(value.val, <<"$">>), <<",">>)))
             ELSE value
    IN  Or(v, PyNone)

clean_runtime(value) ==
    LET v == IF value.type = "str"
             THEN PyStr(Strip(Remove(Remove(value.val, <<"m", "i", "n">>),
                                     <<"m", "i", "n", "s">>)))
             ELSE value
    IN  Or(v, PyNone)

\* pd.notna(v)
NotNa(v) == v # PyNone /\ v # PyNaN

\* The tuple bound to INSERT OR REPLACE for one row of movies_to_load.
LoadedRow(r) ==
    [movie_id |-> IntOf(r["movieId"]),
     title |-> full_title_clean(r["title"].val),
     release_year |-> IF NotNa(r["release_year"])
                      THEN PyInt(IntOf(r["release_year"]))
                      ELSE PyNone,
     imdb_id |-> r["imdb_id"],
     director |-> r["director"],
     plot |-> r["plot"],
     box_office_dollars |-> clean_box_office(r["box_office_dollars"]),
     runtime_mins |-> clean_runtime(r["runtime_mins"]),
     imdb_rating |-> r["imdb_rating"]]

\* The key of the movies table, on which INSERT OR REPLACE replaces a row:
\* the movie_id bound for row r of the frame.
MoviesKey(r) == IntOf(r["movieId"])

\* INSERT OR REPLACE of every row of the frame, in order: of the rows with
\* one key the last one stays.
Upsert(tbl, frame) ==
    LET keys == { MoviesKey(frame[i]) : i \in 1..Len(frame) }
        lastOf(k) == CHOOSE i \in 1..Len(frame) :
                        /\ MoviesKey(frame[i]) = k
                        /\ \A j \in 1..Len(frame) :
                               MoviesKey(frame[j]) = k => j <= i
    IN  [k \in DOMAIN tbl \cup keys |->
            IF k \in keys THEN LoadedRow(frame[lastOf(k)]) ELSE tbl[k]]

\* load_data, the movies part: selecting a column the frame lacks raises
\* KeyError, which rolls back and is raised again.
LoadData ==
    /\ pc = "extracted"
    /\ Len(loads) < MaxLoads
    /\ IF LoadColumns \subseteq DOMAIN df[1]
       THEN /\ table' = Upsert(table, df)
            /\ loads' = Append(loads, [status |-> "ok", table |-> table'])
       ELSE /\ table' = table
            /\ loads' = Append(loads, [status |-> "KeyError", table |-> table])
    /\ UNCHANGED <<df, idx, pc, fetch, obs>>
    /\ UNCHANGED tvars

\* --------------------------------------------------------------------- Spec

TIdle ==
    /\ title = <<>>
    /\ tpc = "idle"
    /\ release_year = PyNone
    /\ candidates = <<>>
    /\ cleaned = <<>>
    /\ cleanCount = 0

PIdle ==
    /\ df = <<>>
    /\ idx = 0
    /\ pc = "idle"
    /\ fetch = FetchIdle
    /\ obs = ObsIdle
    /\ table = <<>>
    /\ loads = <<>>

\* main up to the loop of extract_movies, on an empty database.
Init ==
    /\ TIdle
    /\ df \in { ReadCatalog(titles, extra) : titles \in Catalogs, extra \in BOOLEAN }
    /\ idx = 1
    /\ pc = "loop"
    /\ fetch = FetchIdle
    /\ obs = ObsIdle
    /\ table = <<>>
    /\ loads = <<>>

Next ==
    \/ BeginEntry
    \/ LookupTransientFailure
    \/ LookupNoMatch
    \/ LookupAuthoritative
    \/ LoadData

Spec == Init /\ [][Next]_vars

\* ------------------------------------------------------------ claims on Spec

\* The entry's title carries a year annotation (None and NaN stand for none).
YearPresent(year) == year # PyNone /\ year # PyNaN

\* C1: once a lookup answers Response == 'True', fetch_omdb_data returns the
\* record mapped from that answer, and that lookup is the last one it issues.
C1_StopsAtFirstAuthoritative ==
    obs.auth # <<>> =>
        /\ obs.status = "returned"
        /\ obs.result = MapResponse(obs.auth[1])
        /\ obs.last[1].outcome = "authoritative"

\* C2: no (candidate, year-variant) pair, a candidate being an entry of the
\* list, is looked up more than 2 times, and one call issues at most
\* N * 2 * 2 lookups for N candidates with a year, and at most N * 2 without.
C2_RetryBudget ==
    /\ obs.pairCalls <= 2
    /\ obs.calls <= Len(obs.cands) * (IF YearPresent(obs.year) THEN 2 ELSE 1) * 2

\* C2 witness: a year is present, every pair of three candidates has failed
\* twice, and the call has returned.
C2_Witness ==
    /\ obs.status = "returned"
    /\ YearPresent(obs.year)
    /\ Len(obs.cands) = 3
    /\ obs.calls = 12
    /\ obs.pairCalls = 2
    /\ obs.last[1].outcome = "transient"

\* C3: no exception leaves fetch_omdb_data: every call returns a record.
C3_NoExceptionEscapes ==
    obs.status # "raised" /\ pc # "failed"

\* C4: a call in which no lookup was authoritative returns the default
\* record, and issues no lookup at all for an empty candidate list.
C4_DefaultWhenNoAuthoritative ==
    (obs.status \in {"returned", "raised"} /\ obs.auth = <<>>) =>
        /\ obs.status = "returned"
        /\ obs.result = default
        /\ (obs.cands = <<>> => obs.calls = 0)

\* The step issues a lookup.
IssuesLookup == obs'.calls = obs.calls + 1 /\ obs'.last # <<>>

\* C5: the lookup after a no-match answer is for the unconstrained variant
\* of the same candidate if the answer was for the year-constrained one, and
\* for the first variant of the next candidate otherwise; a year-constrained
\* lookup carries the entry's year, and never follows the unconstrained one
\* of its candidate.
C5_NoMatchAdvances ==
    [][IssuesLookup =>
          LET new == obs'.last[1]
          IN  /\ "y" \in DOMAIN new.params =>
                    /\ YearPresent(obs.year)
                    /\ new.params.y = IntOf(obs.year)
                    /\ \/ obs.last = <<>>
                       \/ obs.last[1].ci < new.ci
                       \/ obs.last[1] = [new EXCEPT !.outcome = "transient"]
              /\ (obs.last # <<>> /\ obs.last[1].outcome = "no_match") =>
                    LET old == obs.last[1]
                    IN  IF "y" \in DOMAIN old.params
                        THEN /\ new.ci = old.ci
                             /\ new.params = [t |-> old.params.t]
                        ELSE /\ new.ci = old.ci + 1
                             /\ new.params.t = obs.cands[old.ci + 1]
                             /\ (Truthy(obs.year) => "y" \in DOMAIN new.params)
      ]_vars

\* C5 witness: the second lookup of a call is the unconstrained one for the
\* first candidate of an entry with a year, which it can only be after one
\* no-match answer to the year-constrained one.
C5_Witness ==
    /\ obs.calls = 2
    /\ Truthy(obs.year)
    /\ obs.last[1].ci = 1
    /\ "y" \notin DOMAIN obs.last[1].params

\* C9: every load_data of the extracted frame succeeds and leaves one row
\* per entry id, and the second leaves the table as the first left it.
C9_LoadTwiceIdempotent ==
    /\ \A k \in 1..Len(loads) :
          /\ loads[k].status = "ok"
          /\ DOMAIN loads[k].table = 1..Len(df)
    /\ Len(loads) >= 2 => loads[2].table = loads[1].table

\* ---------------------------------------------------------------- SpecTitle

TInit ==
    /\ title \in RawTitles
    /\ tpc = "start"
    /\ release_year = PyNone
    /\ candidates = <<>>
    /\ cleaned = title
    /\ cleanCount = 0
    /\ PIdle

\* base_clean applied to the title, then to its own result.
BaseClean ==
    /\ tpc = "start"
    /\ cleanCount < MaxCleans
    /\ cleaned' = base_clean(cleaned)
    /\ cleanCount' = cleanCount + 1
    /\ UNCHANGED <<title, tpc, release_year, candidates>>
    /\ UNCHANGED pvars

\* extract_movies, line 162: the release_year lambda applied to the title.
DeriveYear ==
    /\ tpc = "start"
    /\ cleanCount = MaxCleans
    /\ release_year' = ReleaseYearOf(title)
    /\ tpc' = "year"
    /\ UNCHANGED <<title, candidates, cleaned, cleanCount>>
    /\ UNCHANGED pvars

\* extract_movies, line 166.
GenerateCandidates ==
    /\ tpc = "year"
    /\ candidates' = generate_title_candidates(title)
    /\ tpc' = "candidates"
    /\ UNCHANGED <<title, release_year, cleaned, cleanCount>>
    /\ UNCHANGED pvars

TNext == BaseClean \/ DeriveYear \/ GenerateCandidates

SpecTitle == TInit /\ [][TNext]_vars

\* ------------------------------------------------------- claims on SpecTitle

NoDuplicates(list) ==
    \A i, j \in 1..Len(list) : i # j => list[i] # list[j]

\* C6: the list generate_title_candidates returns holds no two equal entries
\* and no empty string, and is empty only if base_clean of the title is empty.
C6_NoDuplicateNoEmptyCandidate ==
    tpc = "candidates" =>
        /\ NoDuplicates(candidates)
        /\ \A i \in 1..Len(candidates) : candidates[i] # <<>>
        /\ (candidates = <<>> => base_clean(title) = <<>>)

\* C7: base_clean is idempotent: a second application returns what the
\* first one returned.
C7_BaseCleanIdempotent ==
    cleanCount = 2 => cleaned = base_clean(title)

\* Year of the (YYYY) block that ends the title (the block base_clean strips).
TrailingYear(t) ==
    YearAt(t, WsRunEnd(t, Min(TrailingYearStarts(t))))

\* C8: the release year of an entry is the year of the (YYYY) block at the
\* end of its title, and is absent when the title does not end in one.
C8_YearIsTrailingAnnotation ==
    tpc # "start" =>
        IF TrailingYearStarts(title) = {}
        THEN release_year = PyNone
        ELSE release_year = PyInt(TrailingYear(title))

\* The forms in priority order: article-inverted, parenthetical-stripped,
\* short alternate (if any), base.
PriorityForms(base) ==
    <<move_trailing_article(base), remove_parenthetical_alternates(base)>>
        \o extract_parenthetical_alternate(base) \o <<base>>

\* The non-empty first occurrences of a list, in its order.
RECURSIVE FirstOccurrences(_)
FirstOccurrences(list) ==
    IF list = <<>> THEN <<>>
    ELSE LET front == SubSeq(list, 1, Len(list) - 1)
             last == list[Len(list)]
         IN  FirstOccurrences(front)
                 \o (IF last # <<>> /\ ~InList(last, front) THEN <<last>> ELSE <<>>)

Variant(c) == tidy_whitespace(remove_diacritics(c))

\* C10: the non-empty first occurrences of (article-inverted, parenthetical-
\* stripped, short alternate, base) open the list in that order; every later
\* entry is the diacritic-stripped variant of one of them, and the variants
\* stand in the order of the candidates they come from.
C10_PriorityOrder ==
    tpc = "candidates" =>
        LET forms == FirstOccurrences(PriorityForms(base_clean(title)))
            n == Len(forms)
        IN  /\ Len(candidates) >= n
            /\ SubSeq(candidates, 1, n) = forms
            /\ \A j \in (n + 1)..Len(candidates) :
                   \E s \in 1..n : /\ candidates[j] = Variant(forms[s])
                                   /\ remove_diacritics(forms[s]) # forms[s]
            /\ \A j1, j2 \in (n + 1)..Len(candidates) :
                   j1 < j2 =>
                       \E s1, s2 \in 1..n :
                           /\ s1 < s2
                           /\ candidates[j1] = Variant(forms[s1])
                           /\ candidates[j2] = Variant(forms[s2])

\* C10 witness: four distinct forms, followed by at least two variants.
C10_Witness ==
    /\ tpc = "candidates"
    /\ Len(FirstOccurrences(PriorityForms(base_clean(title)))) = 4
    /\ Len(candidates) >= 6

====
